---------------------------- MODULE Spec2Model ----------------------------
(***************************************************************************)
(* A model of the Job-Search repository:                                   *)
(*   scripts/fetch_jobs.py               the ingestion run: fetch every    *)
(*       source, gate, score, rank, cap and render the digest;             *)
(*   scripts/step3_generate_artifacts.py the artifact workflow: the marker *)
(*       guard, the digest parser and the one posted comment.              *)
(* Python strings are TLA+ strings; a character is a string of length 1.   *)
(***************************************************************************)
EXTENDS Integers, Sequences, FiniteSets, TLC

(***************************************************************************)
(* Python's str operations, as the two scripts use them.                   *)
(***************************************************************************)
Char(s, i) == SubSeq(s, i, i)

Min(S) == CHOOSE x \in S : \A y \in S : x <= y

\* Whitespace as str.strip() and the regular expression \s see it.
IsSpace(c) == c \in {" ", "\t", "\n", "\r"}

UPPER == "ABCDEFGHIJKLMNOPQRSTUVWXYZ"

LOWER == "abcdefghijklmnopqrstuvwxyz"

DIGITS == "0123456789"

UpperChars == {Char(UPPER, i) : i \in 1..26}

\* The lower-case letter of every upper-case one.
ToLower == [c \in UpperChars |-> Char(LOWER, CHOOSE i \in 1..26 : Char(UPPER, i) = c)]

LowerChar(c) == IF c \in UpperChars THEN ToLower[c] ELSE c

\* str.lower() of s[lo..hi]
RECURSIVE lowerR(_, _, _)
lowerR(s, lo, hi) ==
    IF lo > hi THEN ""
    ELSE IF lo = hi THEN LowerChar(Char(s, lo))
    ELSE LET mid == (lo + hi) \div 2
         IN  lowerR(s, lo, mid) \o lowerR(s, mid + 1, hi)

lower(s) == lowerR(s, 1, Len(s))

\* The first place from i on, and the last place up to i, of a char of s that
\* is not in the set drop; hi + 1 and lo - 1 when there is none.
RECURSIVE first_kept(_, _, _)
first_kept(s, i, drop) ==
    IF i > Len(s) \/ Char(s, i) \notin drop THEN i ELSE first_kept(s, i + 1, drop)

RECURSIVE last_kept(_, _, _)
last_kept(s, i, drop) ==
    IF i < 1 \/ Char(s, i) \notin drop THEN i ELSE last_kept(s, i - 1, drop)

\* s.strip(chars), chars given as a set
stripSet(s, drop) ==
    LET lo == first_kept(s, 1, drop)
    IN  IF lo > Len(s) THEN "" ELSE SubSeq(s, lo, last_kept(s, Len(s), drop))

\* str.strip()
strip(s) == stripSet(s, {" ", "\t", "\n", "\r"})

\* re.sub(r"\s+", " ", s) of s[lo..hi]: every run of whitespace becomes one space
RECURSIVE collapseR(_, _, _)
collapseR(s, lo, hi) ==
    IF lo > hi THEN ""
    ELSE IF lo = hi
         THEN IF IsSpace(Char(s, lo))
              THEN IF lo > 1 /\ IsSpace(Char(s, lo - 1)) THEN "" ELSE " "
              ELSE Char(s, lo)
    ELSE LET mid == (lo + hi) \div 2
         IN  collapseR(s, lo, mid) \o collapseR(s, mid + 1, hi)

\* needle in hay
Contains(hay, needle) ==
    \/ needle = ""
    \/ \E i \in 1..(Len(hay) - Len(needle) + 1) :
          SubSeq(hay, i, i + Len(needle) - 1) = needle

\* hay.find(needle) + 1: the first place needle occurs, 0 when it does not
Find(hay, needle) ==
    LET at == {i \in 1..(Len(hay) - Len(needle) + 1) :
                  SubSeq(hay, i, i + Len(needle) - 1) = needle}
    IN  IF at = {} THEN 0 ELSE Min(at)

startswith(s, prefix) ==
    Len(s) >= Len(prefix) /\ SubSeq(s, 1, Len(prefix)) = prefix

\* s[i:] with i counted from 1
From(s, i) == IF i > Len(s) THEN "" ELSE SubSeq(s, i, Len(s))

\* s[:n]
Upto(s, n) == IF n <= 0 THEN "" ELSE SubSeq(s, 1, IF n > Len(s) THEN Len(s) ELSE n)

\* s.split(sep)
RECURSIVE split(_, _)
split(s, sep) ==
    LET i == Find(s, sep)
    IN  IF i = 0 THEN <<s>>
        ELSE <<Upto(s, i - 1)>> \o split(From(s, i + Len(sep)), sep)

\* The places in s[lo..hi] where a line break "\n", "\r" or "\r\n" begins.
RECURSIVE line_breaks(_, _, _)
line_breaks(s, lo, hi) ==
    IF lo > hi THEN <<>>
    ELSE IF lo = hi
         THEN IF \/ Char(s, lo) = "\r"
                 \/ Char(s, lo) = "\n" /\ ~(lo > 1 /\ Char(s, lo - 1) = "\r")
              THEN <<lo>> ELSE <<>>
    ELSE LET m == (lo + hi) \div 2
         IN  line_breaks(s, lo, m) \o line_breaks(s, m + 1, hi)

\* s.splitlines()
splitlines(s) ==
    LET breaks   == line_breaks(s, 1, Len(s))
        after(b) == IF Char(s, b) = "\r" /\ b < Len(s) /\ Char(s, b + 1) = "\n"
                    THEN b + 2 ELSE b + 1
        start(k) == IF k = 1 THEN 1 ELSE after(breaks[k - 1])
        lines    == [k \in 1..Len(breaks) |-> SubSeq(s, start(k), breaks[k] - 1)]
        rest     == start(Len(breaks) + 1)
    IN  IF rest > Len(s) THEN lines ELSE Append(lines, SubSeq(s, rest, Len(s)))

\* s.replace(old, new) for a one-character old, of s[lo..hi]
RECURSIVE replaceR(_, _, _, _, _)
replaceR(s, old, new, lo, hi) ==
    IF lo > hi THEN ""
    ELSE IF lo = hi THEN (IF Char(s, lo) = old THEN new ELSE Char(s, lo))
    ELSE LET mid == (lo + hi) \div 2
         IN  replaceR(s, old, new, lo, mid) \o replaceR(s, old, new, mid + 1, hi)

replace(s, old, new) == replaceR(s, old, new, 1, Len(s))

\* s.strip(c) for a one-character c
stripChar(s, c) == stripSet(s, {c})

\* "".join(parts)
RECURSIVE concat(_)
concat(parts) ==
    IF parts = <<>> THEN "" ELSE Head(parts) \o concat(Tail(parts))

\* sep.join(parts)
RECURSIVE join(_, _)
join(sep, parts) ==
    IF parts = <<>> THEN ""
    ELSE IF Len(parts) = 1 THEN Head(parts)
    ELSE Head(parts) \o sep \o join(sep, Tail(parts))

\* str(n) of an int n >= 0, as an f-string formats it
RECURSIVE str(_)
str(n) ==
    IF n < 10 THEN Char(DIGITS, n + 1)
    ELSE str(n \div 10) \o Char(DIGITS, (n % 10) + 1)

\* fetch_jobs.normalize: strip, collapse whitespace runs, lowercase
normalize(s) ==
    LET t == strip(s)
    IN  lower(collapseR(t, 1, Len(t)))


(***************************************************************************)
(* State.                                                                  *)
(*  The ingestion run (fetch_jobs.main):                                   *)
(*    CONFIG, keyword_phrases  config.json and keywords.txt, as loaded     *)
(*    world        what each source would return on this run               *)
(*    failed       the sources whose fetch has failed                      *)
(*    all_jobs, candidates     main's two lists                            *)
(*    survivors    the candidates as they were before the sort and the cap *)
(*    outcome      per posting of all_jobs, the gate that dropped it       *)
(*    md           the text written to scripts/digest.md                   *)
(*    pc, cursor   main's position and its loop index                      *)
(*  The artifact workflow (step3_generate_artifacts.main):                 *)
(*    comments     the issue's comments on GitHub, oldest first            *)
(*    issue_body   the issue's body                                        *)
(*    runs         per run of the workflow on the issue: its position pc,  *)
(*                 its locals jobs and comment, the number of comments it  *)
(*                 has posted, and whether a comment with the marker was   *)
(*                 on the issue when it asked                              *)
(*  One call of a function of the scripts:                                 *)
(*    input, mid, output, hpc  its arguments, an intermediate or earlier   *)
(*                 value, its result, and whether it has returned          *)
(***************************************************************************)
VARIABLES CONFIG, keyword_phrases, world, failed, all_jobs, candidates,
          survivors, outcome, md, pc, cursor,
          comments, issue_body, runs,
          input, mid, output, hpc

fetchVars == <<CONFIG, keyword_phrases, world, failed, all_jobs, candidates,
               survivors, outcome, md, pc, cursor>>

callVars == <<input, mid, output, hpc>>

step3Vars == <<comments, issue_body, runs>>

vars == <<fetchVars, step3Vars, callVars>>

(***************************************************************************)
(* fetch_jobs.py: the posting, the classifier, the scorer, the gates.      *)
(***************************************************************************)
\* The dataclass Job: every field a string.
Job(id, title, location, team, company, source, url, description) ==
    [id |-> id, title |-> title, location |-> location, team |-> team,
     company |-> company, source |-> source, url |-> url,
     description |-> description]

INTERN_POSITIVE ==
    <<"intern", "internship", "co-op", "coop", "student", "graduate intern",
      "summer intern", "fall intern", "spring intern", "year-round">>

INTERN_NEGATIVE ==
    <<"senior", "sr", "staff", "principal", "lead", "manager", "director",
      "head", "vp", "vice president", "architect", "distinguished">>

\* \w of the regular expressions
WordChars ==
    {"_"} \cup {Char(UPPER, i) : i \in 1..26} \cup {Char(LOWER, i) : i \in 1..26}
          \cup {Char(DIGITS, i) : i \in 1..10}

WordChar(c) == c \in WordChars

\* re.search(rf"\b{re.escape(k)}\b", t) for a k that starts and ends in a word character
WordSearch(t, k) ==
    \E i \in 1..(Len(t) - Len(k) + 1) :
        /\ SubSeq(t, i, i + Len(k) - 1) = k
        /\ (i = 1 \/ ~WordChar(Char(t, i - 1)))
        /\ (i + Len(k) > Len(t) \/ ~WordChar(Char(t, i + Len(k))))

is_intern_role(title) ==
    LET t == lower(title)
    IN  IF ~(\E i \in DOMAIN INTERN_POSITIVE : Contains(t, INTERN_POSITIVE[i]))
        THEN FALSE
        ELSE IF \E i \in DOMAIN INTERN_NEGATIVE : WordSearch(t, INTERN_NEGATIVE[i])
        THEN FALSE
        ELSE TRUE

contains_any(hay, needles) ==
    LET h == lower(hay)
    IN  \E i \in DOMAIN needles : Contains(h, lower(needles[i]))

no_patterns ==
    <<"no sponsorship", "unable to sponsor", "cannot sponsor",
      "will not sponsor", "not sponsor", "without sponsorship",
      "no visa sponsorship", "do not sponsor", "not eligible for sponsorship",
      "us citizen only", "u.s. citizen only", "must be a u.s. citizen",
      "must be us citizen", "security clearance required">>

yes_patterns ==
    <<"visa sponsorship", "sponsorship available", "eligible for sponsorship",
      "will sponsor", "accept cpt", "accept opt", "accept h1b", "can sponsor">>

\* A variant that asks for availability first (the order of the two checks swapped).
sponsorship_status_yes_first(text) ==
    LET t == normalize(text)
    IN  IF \E i \in DOMAIN yes_patterns : Contains(t, yes_patterns[i]) THEN "YES"
        ELSE IF \E i \in DOMAIN no_patterns : Contains(t, no_patterns[i]) THEN "NO"
        ELSE "UNKNOWN"

sponsorship_status(text) ==
    LET t == normalize(text)
    IN  IF \E i \in DOMAIN no_patterns : Contains(t, no_patterns[i]) THEN "NO"
        ELSE IF \E i \in DOMAIN yes_patterns : Contains(t, yes_patterns[i]) THEN "YES"
        ELSE "UNKNOWN"

\* A variant of the loop without the seen set: a repeated phrase counts again.
RECURSIVE count_hits_no_seen(_, _, _, _, _)
count_hits_no_seen(t, phrases, i, hits, seen) ==
    IF i > Len(phrases) THEN hits
    ELSE LET k == normalize(phrases[i])
         IN  IF k # "" /\ Contains(t, k)
             THEN count_hits_no_seen(t, phrases, i + 1, hits + 1, seen)
             ELSE count_hits_no_seen(t, phrases, i + 1, hits, seen)

\* The loop of match_score over phrases[i..]: hits and seen.
RECURSIVE count_hits(_, _, _, _, _)
count_hits(t, phrases, i, hits, seen) ==
    IF i > Len(phrases) THEN hits
    ELSE LET k == normalize(phrases[i])
         IN  IF k # "" /\ Contains(t, k) /\ k \notin seen
             THEN count_hits(t, phrases, i + 1, hits + 1, seen \cup {k})
             ELSE count_hits(t, phrases, i + 1, hits, seen)

\* int(min(100, (hits / 10) * 80)), then the two overrides.  The float product
\* (hits / 10) * 80 is the exact integer 8 * hits for every hits in 0..25.
score_of_hits(hits) ==
    LET score == IF (hits * 80) \div 10 > 100 THEN 100 ELSE (hits * 80) \div 10
    IN  IF hits >= 20 THEN 100
        ELSE IF hits >= 15 THEN 95
        ELSE score

match_score(job, phrases) ==
    LET text == job.title \o "\n" \o job.team \o "\n" \o job.description
        t    == normalize(text)
    IN  score_of_hits(count_hits(t, phrases, 1, 0, {}))

is_internship(job, internship_keywords) ==
    LET in_title == contains_any(job.title, internship_keywords)
    IN  in_title \/ Contains(lower(job.description), "intern")

location_ok(job, locations) ==
    IF locations = <<>> THEN TRUE
    ELSE LET loc == normalize(job.location)
         IN  \/ \E i \in DOMAIN locations : Contains(loc, normalize(locations[i]))
             \/ /\ Contains(loc, "remote")
                /\ \E i \in DOMAIN locations : Contains(normalize(locations[i]), "remote")


(***************************************************************************)
(* fetch_jobs.py: the digest builder.                                      *)
(***************************************************************************)
\* datetime.now(timezone.utc) of the run, in the two formats main uses.
utc_now == "2026-01-15 06:00 UTC"

utc_today == "2026-01-15"

\* One table row of build_digest_md; a row is the tuple (job, score, sponsor).
digest_row(row) ==
    LET job     == row[1]
        score   == row[2]
        sponsor == row[3]
        title   == replace(job.title, "|", " ")
        company == replace(job.company, "|", " ")
        source  == replace(job.source, "|", " ")
        loc     == replace(job.location, "|", " ")
        url     == job.url
    IN  "| " \o str(score) \o " | " \o sponsor \o " | " \o title \o " | " \o company
        \o " | " \o source \o " | " \o loc \o " | [Apply](" \o url \o ") |\n"

\* The sign the source writes after "score" is U+2265; ">=" stands for it here.
build_digest_md(rows) ==
    concat(<<"# Daily AI Internship Digest\n\n",
             "Generated: **" \o utc_now \o "**\n\n",
             "Filters: score >= **" \o str(CONFIG.min_match_score) \o "**, max **"
                 \o str(CONFIG.max_results) \o "**, "
                 \o "locations: **Remote US + Texas**, sponsorship: **reject if explicit NO; silent = review**\n\n",
             "---\n\n",
             "| Score | Sponsorship | Title | Company | Source | Location | Link |\n",
             "|---:|:---:|---|---|---|---|---|\n">>
           \o [i \in 1..Len(rows) |-> digest_row(rows[i])]
           \o <<"\n---\n\n",
                "### Notes\n",
                "- **Sponsorship** is inferred from posting text. If it says **NO sponsorship / US citizen only / clearance required**, it is rejected.\n",
                "- If sponsorship is **silent**, it is marked **UNKNOWN** and kept for review.\n">>)

\* The notice main writes when no candidate is left.
no_matches_md ==
    "# Daily AI Internship Digest\n\n"
    \o "No new matches found for " \o utc_today \o ". " \o "Check back tomorrow!"

(***************************************************************************)
(* fetch_jobs.py: the sort and the cap of main.                            *)
(***************************************************************************)
\* The printable ASCII characters in code point order: 32 to 95, and 97 to 126.
ASCII_32_95 ==
    " !\"#$%&'()*+,-./0123456789:;<=>?@ABCDEFGHIJKLMNOPQRSTUVWXYZ[\\]^_"

ASCII_97_126 == "abcdefghijklmnopqrstuvwxyz{|}~"

\* ord(c)
Ord ==
    [c \in {Char(ASCII_32_95, i) : i \in 1..Len(ASCII_32_95)}
           \cup {Char(ASCII_97_126, i) : i \in 1..Len(ASCII_97_126)} |->
        IF \E i \in 1..Len(ASCII_32_95) : Char(ASCII_32_95, i) = c
        THEN 31 + (CHOOSE i \in 1..Len(ASCII_32_95) : Char(ASCII_32_95, i) = c)
        ELSE 96 + (CHOOSE i \in 1..Len(ASCII_97_126) : Char(ASCII_97_126, i) = c)]

\* a < b of two Python strings: by code point, a proper prefix first
StrLess(a, b) ==
    LET n == IF Len(a) < Len(b) THEN Len(a) ELSE Len(b)
        d == {i \in 1..n : Char(a, i) # Char(b, i)}
    IN  IF d = {} THEN Len(a) < Len(b)
        ELSE Ord[Char(a, Min(d))] < Ord[Char(b, Min(d))]

\* A sort key that leaves the title out.
sort_key_score_only(x) == <<x[2], "">>

\* key=lambda x: (x[1], normalize(x[0].title))
sort_key(x) == <<x[2], normalize(x[1].title)>>

\* k1 < k2 of two keys (score, title)
KeyLess(k1, k2) ==
    \/ k1[1] < k2[1]
    \/ k1[1] = k2[1] /\ StrLess(k1[2], k2[2])

\* list.sort(key=..., reverse=True): descending and stable, equal keys keep their order
RECURSIVE sort_reverse(_)
sort_reverse(xs) ==
    IF Len(xs) <= 1 THEN xs
    ELSE LET init == sort_reverse(SubSeq(xs, 1, Len(xs) - 1))
             x    == xs[Len(xs)]
             n    == Cardinality({i \in DOMAIN init :
                                     ~KeyLess(sort_key(init[i]), sort_key(x))})
         IN  SubSeq(init, 1, n) \o <<x>> \o SubSeq(init, n + 1, Len(init))

\* xs[:n] for n >= 0
cap(xs, n) == SubSeq(xs, 1, IF n < Len(xs) THEN n ELSE Len(xs))

(***************************************************************************)
(* fetch_jobs.py: main.                                                    *)
(***************************************************************************)
\* CONFIG.get(key, default)
get(config, key, default) == IF key \in DOMAIN config THEN config[key] ELSE default

\* The boards main visits, in order: every board of every greenhouse source.
RECURSIVE greenhouse_boards(_)
greenhouse_boards(sources) ==
    IF sources = <<>> THEN <<>>
    ELSE (IF Head(sources).type = "greenhouse" THEN Head(sources).boards ELSE <<>>)
         \o greenhouse_boards(Tail(sources))

MaxResults == 3

\* keywords.txt of the run: the first 14 pool phrases and a repeated one.
KEYWORDS_TXT ==
    <<"python", "pytorch", "machine learning", "llm", "rag", "docker",
      "kubernetes", "aws", "sql", "mlops", "nlp", "deep learning",
      "tensorflow", "data pipelines", "Python">>

BaseConfig ==
    [sources |-> <<[type |-> "greenhouse", boards |-> <<"acme", "globex">>]>>,
     internship_type_keywords |-> <<"intern", "co-op">>,
     role_keywords |-> <<"machine learning", "data", "software", "research">>,
     locations |-> <<"Texas", "Remote US">>,
     min_match_score |-> 0,
     max_results |-> 0]

\* The config.json files of the model.  build_digest_md reads min_match_score and
\* max_results without a default, so every config carries both.
CONFIGS ==
    LET base == {[BaseConfig EXCEPT !.min_match_score = m, !.max_results = n] :
                    m \in {0, 50}, n \in 0..MaxResults}
    IN  base \cup {c @@ ("reject_if_no_sponsorship" :> b) : c \in base, b \in BOOLEAN}

J_ML ==
    Job("101", "Machine Learning Intern", "Remote", "Applied AI", "acme", "Greenhouse",
        "https://boards.greenhouse.io/acme/jobs/101",
        "Work on Python, PyTorch, machine learning, LLM, RAG, Docker, Kubernetes, AWS, "
        \o "SQL, MLOps, NLP and deep learning.\nVisa sponsorship available.")

J_LOW ==
    Job("102", "Software Engineering Intern", "Remote", "", "acme", "Greenhouse",
        "https://boards.greenhouse.io/acme/jobs/102", "Build tools in Python.")

J_SENIOR ==
    Job("103", "Senior Machine Learning Engineer, Intern Program", "Remote", "", "acme",
        "Greenhouse", "https://boards.greenhouse.io/acme/jobs/103",
        "Lead the machine learning internship program. Python, SQL.")

J_TIE ==
    Job("104", "AI  Research Intern", "Dallas, Texas", "Research", "acme", "Greenhouse",
        "https://boards.greenhouse.io/acme/jobs/104",
        "Research internship: Python, PyTorch, LLM, RAG, NLP, SQL, AWS.")

J_AUSTIN ==
    Job("201", "Data Engineering Intern", "Austin, TX", "", "globex", "Greenhouse",
        "https://boards.greenhouse.io/globex/jobs/201",
        "Data pipelines in Python and SQL on AWS.")

J_NOSP ==
    Job("202", "Data Science Intern", "Remote US", "", "globex", "Greenhouse",
        "https://boards.greenhouse.io/globex/jobs/202",
        "Python, SQL, AWS, Docker, NLP, LLM, RAG. Visa sponsorship: we are unable to sponsor.")

J_STUDENT ==
    Job("203", "Student Researcher, Data", "Remote", "", "globex", "Greenhouse",
        "https://boards.greenhouse.io/globex/jobs/203", "Part-time research with Python.")

J_LOW2 ==
    Job("s1", "software engineering  INTERN", "Remote (US)", "", "Initech", "Google Jobs",
        "https://www.google.com/search?q=s1", "Internship. Python scripting.")

J_NOROLE ==
    Job("s2", "Marketing Intern", "Remote", "", "Initech", "Google Jobs",
        "https://www.google.com/search?q=s2", "Campaigns and events.")

\* What the sources hold on a run: per Greenhouse board and for the SerpAPI search
\* the postings the fetch returns when it succeeds (already in the shape of Job),
\* and whether SERPAPI_KEY is set.
WORLDS ==
    {[acme |-> a, globex |-> g, serpapi |-> <<J_NOROLE, J_LOW2>>, SERPAPI_KEY |-> k] :
        a \in {<<J_ML>>, <<J_LOW, J_SENIOR, J_TIE>>},
        g \in {<<J_AUSTIN, J_NOSP>>, <<J_STUDENT>>},
        k \in BOOLEAN}

\* The run's variables while no run is modelled.
FetchIdle ==
    /\ CONFIG = [BaseConfig EXCEPT !.max_results = 15]
    /\ keyword_phrases = <<>>
    /\ world = <<>>
    /\ failed = {}
    /\ all_jobs = <<>>
    /\ candidates = <<>>
    /\ survivors = <<>>
    /\ outcome = <<>>
    /\ md = ""
    /\ pc = "idle"
    /\ cursor = 0

\* The workflow's variables while no workflow run is modelled.
Step3Idle ==
    /\ comments = <<>>
    /\ issue_body = ""
    /\ runs = <<>>

\* The call's variables while no single call is modelled.
CallIdle ==
    /\ input = <<>>
    /\ mid = 0
    /\ output = 0
    /\ hpc = "idle"

FetchInit ==
    /\ CONFIG \in CONFIGS
    /\ keyword_phrases = KEYWORDS_TXT
    /\ world \in WORLDS
    /\ failed = {}
    /\ all_jobs = <<>>
    /\ candidates = <<>>
    /\ survivors = <<>>
    /\ outcome = <<>>
    /\ md = ""
    /\ pc = IF greenhouse_boards(get(CONFIG, "sources", <<>>)) = <<>>
            THEN "serpapi" ELSE "greenhouse"
    /\ cursor = 1
    /\ Step3Idle
    /\ CallIdle

\* A variant of the except clause that lets the exception end the run.
greenhouse_except_raise(next) == "aborted"

\* except Exception around fetch_greenhouse_jobs(board): a warning is printed and
\* the loop goes on to where it would have gone.
greenhouse_except(next) == next

\* One turn of the loop over the boards: fetch_greenhouse_jobs(board) returns the
\* board's postings or raises (requests.get, raise_for_status, r.json, a malformed job).
FetchGreenhouse ==
    /\ pc = "greenhouse"
    /\ LET boards == greenhouse_boards(get(CONFIG, "sources", <<>>))
           board  == boards[cursor]
           next   == IF cursor < Len(boards) THEN "greenhouse" ELSE "serpapi"
       IN  /\ \/ /\ all_jobs' = all_jobs \o world[board]
                 /\ failed' = failed
                 /\ pc' = next
              \/ /\ all_jobs' = all_jobs
                 /\ failed' = failed \cup {board}
                 /\ pc' = greenhouse_except(next)
           /\ cursor' = IF cursor < Len(boards) THEN cursor + 1 ELSE 1
    /\ UNCHANGED <<CONFIG, keyword_phrases, world, candidates, survivors, outcome, md>>
    /\ UNCHANGED <<step3Vars, callVars>>

\* fetch_serpapi_jobs: [] without SERPAPI_KEY; else the search's postings, or [] when
\* the search raises (caught inside the function).
FetchSerpApi ==
    /\ pc = "serpapi"
    /\ \/ /\ ~world.SERPAPI_KEY
          /\ UNCHANGED <<all_jobs, failed>>
       \/ /\ world.SERPAPI_KEY
          /\ all_jobs' = all_jobs \o world.serpapi
          /\ failed' = failed
       \/ /\ world.SERPAPI_KEY
          /\ all_jobs' = all_jobs
          /\ failed' = failed \cup {"serpapi"}
    /\ pc' = "filter"
    /\ cursor' = 1
    /\ UNCHANGED <<CONFIG, keyword_phrases, world, candidates, survivors, outcome, md>>
    /\ UNCHANGED <<step3Vars, callVars>>

\* A variant of the gates that drops every posting classified NO, whatever the
\* reject_if_no_sponsorship flag says.
gate_reject_every_no(job) ==
    LET text_for_role == job.title \o "\n" \o job.description \o "\n" \o job.team
        sponsor       == sponsorship_status(text_for_role)
    IN  IF ~is_intern_role(job.title) THEN "intern_title"
        ELSE IF ~is_internship(job, get(CONFIG, "internship_type_keywords", <<>>))
        THEN "internship"
        ELSE IF ~contains_any(text_for_role, get(CONFIG, "role_keywords", <<>>))
        THEN "role"
        ELSE IF ~location_ok(job, get(CONFIG, "locations", <<>>)) THEN "location"
        ELSE IF sponsor = "NO" THEN "sponsorship"
        ELSE IF match_score(job, keyword_phrases) < get(CONFIG, "min_match_score", 0)
        THEN "score"
        ELSE "kept"

\* The gates of one turn of the loop over all_jobs: the name of the gate that
\* drops the posting, or "kept".
gate(job) ==
    LET text_for_role == job.title \o "\n" \o job.description \o "\n" \o job.team
        sponsor       == sponsorship_status(text_for_role)
    IN  IF ~is_intern_role(job.title) THEN "intern_title"
        ELSE IF ~is_internship(job, get(CONFIG, "internship_type_keywords", <<>>))
        THEN "internship"
        ELSE IF ~contains_any(text_for_role, get(CONFIG, "role_keywords", <<>>))
        THEN "role"
        ELSE IF ~location_ok(job, get(CONFIG, "locations", <<>>)) THEN "location"
        ELSE IF get(CONFIG, "reject_if_no_sponsorship", FALSE) /\ sponsor = "NO"
        THEN "sponsorship"
        ELSE IF match_score(job, keyword_phrases) < get(CONFIG, "min_match_score", 0)
        THEN "score"
        ELSE "kept"

\* One turn of the loop over all_jobs.
FilterJob ==
    /\ pc = "filter"
    /\ cursor <= Len(all_jobs)
    /\ LET job           == all_jobs[cursor]
           text_for_role == job.title \o "\n" \o job.description \o "\n" \o job.team
           g             == gate(job)
       IN  /\ outcome' = Append(outcome, g)
           /\ candidates' =
                 IF g = "kept"
                 THEN Append(candidates, <<job, match_score(job, keyword_phrases),
                                           sponsorship_status(text_for_role)>>)
                 ELSE candidates
    /\ cursor' = cursor + 1
    /\ UNCHANGED <<CONFIG, keyword_phrases, world, failed, all_jobs, survivors, md, pc>>
    /\ UNCHANGED <<step3Vars, callVars>>

\* After the loop: candidates.sort(...) and candidates[: max_results].
SortAndCap ==
    /\ pc = "filter"
    /\ cursor > Len(all_jobs)
    /\ survivors' = candidates
    /\ candidates' = cap(sort_reverse(candidates), get(CONFIG, "max_results", 15))
    /\ pc' = "digest"
    /\ UNCHANGED <<CONFIG, keyword_phrases, world, failed, all_jobs, outcome, md, cursor>>
    /\ UNCHANGED <<step3Vars, callVars>>

\* The digest is built and written to scripts/digest.md.
WriteDigest ==
    /\ pc = "digest"
    /\ md' = IF candidates = <<>> THEN no_matches_md ELSE build_digest_md(candidates)
    /\ pc' = "done"
    /\ UNCHANGED <<CONFIG, keyword_phrases, world, failed, all_jobs, candidates,
                   survivors, outcome, cursor>>
    /\ UNCHANGED <<step3Vars, callVars>>

FetchNext == FetchGreenhouse \/ FetchSerpApi \/ FilterJob \/ SortAndCap \/ WriteDigest

SpecFetch == FetchInit /\ [][FetchNext]_vars

(***************************************************************************)
(* match_score, called on a growing keyword list (keywords.txt).           *)
(***************************************************************************)
MaxKeywords == 22

\* Phrases of a keywords.txt; every one occurs in SCORE_JOBS[1].
KEYWORD_POOL ==
    <<"python", "pytorch", "machine learning", "llm", "rag", "docker",
      "kubernetes", "aws", "sql", "mlops", "nlp", "deep learning",
      "tensorflow", "data pipelines", "cloud", "rest api", "git", "linux",
      "computer vision", "airflow", "spark", "statistics">>

\* Lines that repeat a pool phrase in another spelling, and one that matches nothing.
EXTRA_PHRASES == {"PYTHON", "Machine   Learning", "cobol"}

SCORE_JOBS ==
    <<Job("1", "Machine Learning Intern", "Remote", "MLOps",
          "acme", "Greenhouse", "https://acme.example/1",
          "Python, PyTorch, TensorFlow and SQL. LLM and RAG,\nNLP, deep  learning, computer vision. "
          \o "Docker, Kubernetes, AWS cloud, Linux, Git, REST API, Airflow, Spark, data pipelines, statistics."),
      Job("2", "Data Intern", "Austin, TX", "",
          "globex", "Google Jobs", "https://globex.example/2",
          "Reporting with SQL and Python.")>>

\* What match_score normalizes: title, team and description.
ScoreText(job) == normalize(job.title \o "\n" \o job.team \o "\n" \o job.description)

\* The distinct normalized phrases of a keyword list that occur in the posting.
DistinctHits(job, phrases) ==
    LET t == ScoreText(job)
    IN  {k \in {normalize(phrases[i]) : i \in DOMAIN phrases} :
            k # "" /\ Contains(t, k)}

ScoreInit ==
    /\ FetchIdle
    /\ Step3Idle
    /\ \E j \in DOMAIN SCORE_JOBS :
          input = [job |-> SCORE_JOBS[j], keyword_phrases |-> <<>>,
                   fresh |-> 0, extra |-> FALSE, new_hit |-> FALSE]
    /\ mid = 0
    /\ output = 0
    /\ hpc = "ready"

\* One more line is added to the keyword list of an already scored posting.
AddKeyword ==
    /\ hpc = "returned"
    /\ Len(input.keyword_phrases) < MaxKeywords
    /\ \E kw \in {KEYWORD_POOL[i] : i \in {input.fresh + 1} \cap DOMAIN KEYWORD_POOL}
                   \cup (IF input.extra THEN {} ELSE EXTRA_PHRASES) :
          input' = [input EXCEPT
                      !.keyword_phrases = Append(@, kw),
                      !.fresh = IF kw \in EXTRA_PHRASES THEN @ ELSE @ + 1,
                      !.extra = @ \/ kw \in EXTRA_PHRASES,
                      !.new_hit = LET k == normalize(kw)
                                  IN  /\ k # ""
                                      /\ Contains(ScoreText(input.job), k)
                                      /\ k \notin DistinctHits(input.job,
                                                                input.keyword_phrases)]
    /\ mid' = output
    /\ hpc' = "ready"
    /\ UNCHANGED output
    /\ UNCHANGED <<fetchVars, step3Vars>>

ScoreCall ==
    /\ hpc = "ready"
    /\ output' = match_score(input.job, input.keyword_phrases)
    /\ hpc' = "returned"
    /\ UNCHANGED <<input, mid>>
    /\ UNCHANGED <<fetchVars, step3Vars>>

ScoreNext == AddKeyword \/ ScoreCall

SpecScore == ScoreInit /\ [][ScoreNext]_vars

\* C4: adding one more keyword phrase that matches the posting (a new distinct
\* hit) never decreases match_score: the score after the addition is at least
\* the score before it.
C4_ScoreMonotone ==
    (hpc = "returned" /\ input.new_hit) => output >= mid

\* C5: match_score is 0 for 0 distinct hits, 80 for 10, 95 for 15 and 100 for
\* 20 or more, a hit being a distinct normalized phrase that occurs in the
\* normalized title, team and description; the score is always in 0..100.
C5_ScoreBoundary ==
    hpc = "returned" =>
        LET h == Cardinality(DistinctHits(input.job, input.keyword_phrases))
        IN  /\ output \in 0..100
            /\ (h = 0 => output = 0)
            /\ (h = 10 => output = 80)
            /\ (h = 15 => output = 95)
            /\ (h >= 20 => output = 100)

\* Twenty distinct hits among twenty-one lines, one of them a repeated phrase.
C5_Witness ==
    /\ hpc = "returned"
    /\ input.extra
    /\ Len(input.keyword_phrases) = 21
    /\ Cardinality(DistinctHits(input.job, input.keyword_phrases)) = 20
    /\ output = 100

(***************************************************************************)
(* sponsorship_status, called on a text put together from fragments.       *)
(***************************************************************************)
MaxFragments == 2

\* Fragments that are a rejection phrase as they stand (up to case and spacing).
REJECTION_FRAGMENTS ==
    {"No  Sponsorship", "unable to sponsor", "U.S. citizen only",
     "Security clearance\nrequired", "not eligible for sponsorship"}

\* Fragments that are an availability phrase as they stand.
AVAILABILITY_FRAGMENTS ==
    {"Visa Sponsorship", "sponsorship   available", "will sponsor", "accept OPT",
     "can sponsor"}

\* Fragments that are neither, alone.
OTHER_FRAGMENTS == {"we do", "not", "sponsor", "great team", "no"}

SPONSOR_FRAGMENTS == REJECTION_FRAGMENTS \cup AVAILABILITY_FRAGMENTS \cup OTHER_FRAGMENTS

HasRejection(text) ==
    \E i \in DOMAIN no_patterns : Contains(normalize(text), no_patterns[i])

HasAvailability(text) ==
    \E i \in DOMAIN yes_patterns : Contains(normalize(text), yes_patterns[i])

SponsorInit ==
    /\ FetchIdle
    /\ Step3Idle
    /\ input = [fragments |-> <<>>, text |-> ""]
    /\ mid = 0
    /\ output = ""
    /\ hpc = "ready"

AppendFragment ==
    /\ hpc = "ready"
    /\ Len(input.fragments) < MaxFragments
    /\ \E f \in SPONSOR_FRAGMENTS :
          input' = [fragments |-> Append(input.fragments, f),
                    text |-> join("\n", Append(input.fragments, f))]
    /\ UNCHANGED <<mid, output, hpc>>
    /\ UNCHANGED <<fetchVars, step3Vars>>

SponsorCall ==
    /\ hpc = "ready"
    /\ output' = sponsorship_status(input.text)
    /\ hpc' = "returned"
    /\ UNCHANGED <<input, mid>>
    /\ UNCHANGED <<fetchVars, step3Vars>>

SponsorNext == AppendFragment \/ SponsorCall

SpecSponsor == SponsorInit /\ [][SponsorNext]_vars

\* C6: a text that contains a rejection phrase classifies as NO, also when it
\* contains an availability phrase; YES only without a rejection phrase and
\* with an availability phrase; UNKNOWN only when neither set matches.
C6_SponsorshipPrecedence ==
    hpc = "returned" =>
        /\ (\E i \in DOMAIN input.fragments : input.fragments[i] \in REJECTION_FRAGMENTS)
              => output = "NO"
        /\ HasRejection(input.text) => output = "NO"
        /\ output = "YES" => (~HasRejection(input.text) /\ HasAvailability(input.text))
        /\ output = "UNKNOWN" => (~HasRejection(input.text) /\ ~HasAvailability(input.text))
        /\ output \in {"NO", "YES", "UNKNOWN"}

\* A text with an availability phrase first and a rejection phrase after it.
C6_Witness ==
    /\ hpc = "returned"
    /\ Len(input.fragments) = 2
    /\ input.fragments[1] \in AVAILABILITY_FRAGMENTS
    /\ input.fragments[2] \in REJECTION_FRAGMENTS
    /\ output = "NO"

(***************************************************************************)
(* location_ok, called on a configured list and a posting's location.      *)
(***************************************************************************)
LOCATION_CONFIGS ==
    {<<>>, <<"Texas", "Remote US">>, <<"Texas">>, <<"Remote US">>, <<"remote">>,
     <<"Austin", "TX">>, <<"  TEXAS ">>, <<"Seattle, WA", "Texas">>}

POSTING_LOCATIONS ==
    {"Austin, TX", "Seattle, WA", "Remote", "Texas", "Dallas, Texas", "Remote US",
     "REMOTE -  us", "Remote (Texas)", "", "Houston,\ttexas", "New York, NY"}

LocationInit ==
    /\ FetchIdle
    /\ Step3Idle
    /\ \E locations \in LOCATION_CONFIGS, l \in POSTING_LOCATIONS :
          input = [locations |-> locations,
                   job |-> Job("7", "ML Intern", l, "", "acme", "Greenhouse",
                               "https://acme.example/7", "")]
    /\ mid = 0
    /\ output = FALSE
    /\ hpc = "ready"

LocationCall ==
    /\ hpc = "ready"
    /\ output' = location_ok(input.job, input.locations)
    /\ hpc' = "returned"
    /\ UNCHANGED <<input, mid>>
    /\ UNCHANGED <<fetchVars, step3Vars>>

SpecLocation == LocationInit /\ [][LocationCall]_vars

\* C7: with the locations ["Texas", "Remote US"] configured, a posting located
\* "Austin, TX" passes location_ok, one located "Seattle, WA" fails and one
\* located "Remote" passes.
C7_LocationScenario ==
    (hpc = "returned" /\ input.locations = <<"Texas", "Remote US">>) =>
        /\ (input.job.location = "Austin, TX" => output = TRUE)
        /\ (input.job.location = "Seattle, WA" => output = FALSE)
        /\ (input.job.location = "Remote" => output = TRUE)

\* The general rule the gate computes: an empty list, a configured location
\* inside the posting's location, or "remote" on both sides.
LocationRule ==
    hpc = "returned" =>
        (output <=>
            \/ input.locations = <<>>
            \/ \E i \in DOMAIN input.locations :
                  Contains(normalize(input.job.location), normalize(input.locations[i]))
            \/ /\ Contains(normalize(input.job.location), "remote")
               /\ \E i \in DOMAIN input.locations :
                     Contains(normalize(input.locations[i]), "remote"))

(***************************************************************************)
(* step3_generate_artifacts.py: the digest parser and the artifact texts.  *)
(***************************************************************************)
MARKER == "<!-- STEP3_ARTIFACTS_v1 -->"

\* Python's None, as the value of a row's apply_url: no URL the parser
\* returns equals it, since every one of those begins with "http".
None == "<None>"

\* re.search(r"\((https?://[^)]+)\)", cell): group 1 of the leftmost match,
\* None when there is none.
link_url(cell) ==
    LET scheme(i) == IF startswith(From(cell, i + 1), "https://") THEN "https://"
                     ELSE IF startswith(From(cell, i + 1), "http://") THEN "http://"
                     ELSE ""
        \* the place of the first char after the scheme
        rest(i)   == i + 1 + Len(scheme(i))
        closes(i) == {j \in rest(i)..Len(cell) : Char(cell, j) = ")"}
        matches   == {i \in 1..Len(cell) :
                         /\ Char(cell, i) = "("
                         /\ scheme(i) # ""
                         /\ closes(i) # {}
                         /\ Min(closes(i)) > rest(i)}
    IN  IF matches = {} THEN None
        ELSE LET i == Min(matches)
             IN  SubSeq(cell, i + 1, Min(closes(i)) - 1)

\* The columns of one table line: ln.strip("|").split("|"), each stripped.
row_cols(ln) ==
    LET cells == split(stripChar(ln, "|"), "|")
    IN  [c \in 1..Len(cells) |-> strip(cells[c])]

parse_jobs_from_markdown_table(text) ==
    LET raw         == splitlines(text)
        nonblank(l) == strip(l) # ""
        kept        == SelectSeq(raw, nonblank)
        lines       == [i \in 1..Len(kept) |-> strip(kept[i])]
        headers     == {i \in 1..Len(lines) :
                           /\ startswith(lines[i], "|")
                           /\ Contains(lines[i], "Title")
                           /\ Contains(lines[i], "Company")
                           /\ Contains(lines[i], "Link")}
    IN  IF headers = {} THEN <<>>
        ELSE LET table_start == Min(headers)
                 first   == table_start + 2
                 stops   == {k \in first..Len(lines) : ~startswith(lines[k], "|")}
                 last    == IF stops = {} THEN Len(lines) ELSE Min(stops) - 1
                 table   == [k \in 1..(last - first + 1) |-> row_cols(lines[first + k - 1])]
                 wide(cols) == Len(cols) >= 7
                 data    == SelectSeq(table, wide)
             IN  [k \in 1..Len(data) |->
                     [score       |-> data[k][1],
                      sponsorship |-> data[k][2],
                      title       |-> data[k][3],
                      company     |-> data[k][4],
                      source      |-> data[k][5],
                      location    |-> data[k][6],
                      apply_url   |-> link_url(data[k][7])]]

\* The longest job description kept.
JD_CAP == 6000

\* re.sub(r"\n{3,}", "\n\n", s) of s[lo..hi]: a line break after two others goes
RECURSIVE squeezeR(_, _, _)
squeezeR(s, lo, hi) ==
    IF lo > hi THEN ""
    ELSE IF lo = hi
         THEN IF /\ Char(s, lo) = "\n"
                 /\ lo > 2
                 /\ Char(s, lo - 1) = "\n"
                 /\ Char(s, lo - 2) = "\n"
              THEN "" ELSE Char(s, lo)
    ELSE LET m == (lo + hi) \div 2
         IN  squeezeR(s, lo, m) \o squeezeR(s, m + 1, hi)

\* The job page is outside the program: response.ok says whether the request
\* succeeded, response.text is the readable text of the page's content region.
fetch_job_description(url, response) ==
    IF url = "" THEN ""
    ELSE IF ~response.ok THEN ""
    ELSE Upto(strip(squeezeR(response.text, 1, Len(response.text))), JD_CAP)

\* The inner function has of keyword_hints.
has(t, j, words) == \E w \in words : Contains(t, w) \/ Contains(j, w)

keyword_hints(title, jd) ==
    LET t == lower(title)
        j == lower(jd)
        when(words, label) == IF has(t, j, words) THEN <<label>> ELSE <<>>
    IN  [role_family |->
             IF has(t, j, {"mlops", "platform", "infrastructure", "deployment",
                           "observability"}) THEN "MLOps"
             ELSE IF has(t, j, {"research", "scientist", "researcher"}) THEN "Research"
             ELSE IF has(t, j, {"data", "analytics", "insights"}) THEN "Data/Applied"
             ELSE IF has(t, j, {"software", "engineer", "backend", "full stack"})
                  THEN "AI Engineering"
             ELSE "AI/ML",
         focus |->
             when({"llm", "large language", "rag", "retrieval", "prompt"}, "LLMs / RAG")
             \o when({"evaluation", "benchmark", "metrics", "ablation", "experiments"},
                     "Model evaluation")
             \o when({"pipelines", "workflow", "orchestration", "airflow", "prefect",
                      "dag"}, "Pipelines")
             \o when({"kubernetes", "docker", "helm", "containers"}, "Containers")
             \o when({"aws", "gcp", "azure", "cloud"}, "Cloud"),
         tools |->
             when({"pytorch", "tensorflow", "jax"}, "PyTorch/TensorFlow/JAX")
             \o when({"python"}, "Python")
             \o when({"sql"}, "SQL"),
         signals |->
             when({"intern", "internship"}, "Internship-friendly")
             \o when({"remote"}, "Remote")
             \o when({"sponsor", "visa", "cpt", "opt", "h1b"}, "Visa mention in posting")]

\* The dash the source writes in the headers is U+2014, and the arrow in one
\* bullet U+2192; "--" and "->" stand for them here.
generate_resume_bullets(title, company, jd) ==
    LET family == keyword_hints(title, jd).role_family
        base ==
            <<"Built Python-based automation to ingest structured/unstructured data, normalize fields, and produce reliable outputs for downstream workflows.",
              "Developed repeatable evaluation and debugging routines, validating changes with clear metrics and documenting results for fast iteration.",
              "Collaborated across engineering stakeholders to translate requirements into implementable technical tasks and deliver working increments.">>
        tailored ==
            IF family = "MLOps" THEN
            <<"Implemented lightweight ML/LLM pipeline components with reproducible runs, configurable parameters, and clear logging for troubleshooting.",
              "Worked with containerized workflows and deployment-minded practices to support reliable iteration across environments (dev -> production).",
              "Instrumented data and model outputs with simple quality checks to reduce regressions and improve observability.">>
            ELSE IF family = "Research" THEN
            <<"Designed and ran experiments to compare approaches, tracked outcomes, and summarized findings to guide next iterations.",
              "Implemented prototype components in Python to test model behavior, failure modes, and performance under varied inputs.",
              "Produced structured write-ups of experiment settings, results, and limitations to support reproducibility.">>
            ELSE IF family = "Data/Applied" THEN
            <<"Analyzed datasets to identify patterns, validate assumptions, and provide actionable insights for product/engineering decisions.",
              "Built small data transformations and QA checks to improve data reliability and reduce noisy outputs.",
              "Created clear summaries of results, assumptions, and risks for stakeholder review.">>
            ELSE
            <<"Built and integrated application components that consume model outputs safely and reliably, with input validation and deterministic fallbacks.",
              "Implemented simple retrieval and ranking patterns (where applicable) to improve response quality and reduce irrelevant outputs.",
              "Improved performance and reliability by profiling bottlenecks and tightening runtime behavior.">>
        bullets == Upto(tailored, 2) \o Upto(base, 1)
        header  == "**Resume bullets (paste-ready) -- " \o company \o " | " \o title \o ":**"
    IN  header \o "\n" \o join("\n", [b \in 1..Len(bullets) |-> "- " \o bullets[b]])

generate_cover_letter(title, company, jd) ==
    LET hints == keyword_hints(title, jd)
        focus == IF hints.focus # <<>> THEN join(", ", Upto(hints.focus, 3))
                 ELSE "practical ML/LLM implementation"
        tools == IF hints.tools # <<>> THEN join(", ", Upto(hints.tools, 3))
                 ELSE "Python and modern ML tooling"
    IN  "**Cover letter draft -- " \o company \o " | " \o title \o ":**\n"
        \o "Dear Hiring Team,\n\n"
        \o "I am an M.S. Artificial Intelligence candidate seeking an internship where I can contribute to " \o focus \o ". "
        \o "I build working systems quickly, iterate based on measurable outcomes, and document decisions so teams can move with confidence.\n\n"
        \o "My recent work has emphasized " \o tools \o ", repeatable workflows, and building reliable components that can run in real environments. "
        \o "I am comfortable learning new stacks, collaborating with engineering teams, and shipping incremental improvements under time constraints.\n\n"
        \o "I would welcome the opportunity to support " \o company \o " as a " \o title \o " intern and contribute to production-grade ML/AI work.\n\n"
        \o "Sincerely,\nEdgar Pfuma"

\* The section of build_comment for one job; response is what the job's page
\* answers to fetch_job_description.
comment_section(j, response) ==
    LET title   == j.title
        company == j.company
        url     == IF j.apply_url = None THEN "" ELSE j.apply_url
        jd      == fetch_job_description(url, response)
    IN  <<"---",
          "### " \o company \o " -- " \o title,
          IF url # "" THEN "- Apply link: " \o url ELSE "- Apply link: (missing)",
          IF jd # "" THEN "- JD captured: Yes (excerpted)"
                     ELSE "- JD captured: No (used robust defaults)",
          "",
          generate_resume_bullets(title, company, jd),
          "",
          generate_cover_letter(title, company, jd),
          "">>

RECURSIVE comment_sections(_, _)
comment_sections(jobs, responses) ==
    IF jobs = <<>> THEN <<>>
    ELSE comment_section(Head(jobs), Head(responses))
         \o comment_sections(Tail(jobs), Tail(responses))

build_comment(jobs, responses) ==
    LET parts == <<MARKER,
                   "## Step 3 Artifacts (Auto-generated)\nGenerated: **" \o utc_now \o "**\n",
                   "This comment contains **paste-ready** resume bullets and a short cover letter draft per job.\n">>
                 \o comment_sections(jobs, responses)
    IN  strip(join("\n", parts))

\* The comment main posts when the issue body holds no job row.
no_table_comment ==
    MARKER \o "\n"
    \o "## Step 3 Artifacts\n"
    \o "I could not find a jobs table in the Issue body. "
    \o "Ensure the digest includes a markdown table with columns including **Title**, **Company**, and an **Apply** link.\n"

(***************************************************************************)
(* The digest written by fetch_jobs.py and read back by                    *)
(* step3_generate_artifacts.py: build_digest_md, then                      *)
(* parse_jobs_from_markdown_table.                                         *)
(***************************************************************************)
\* The most candidates in one ranked list.
MaxRows == 2

\* Candidates of main's list: a posting, its score, its sponsorship status.
CAND_ML == <<J_ML, 96, "YES">>

CAND_PIPES ==
    <<Job("202", "ML | AI Intern", "Austin, TX | Remote", "", "Acme|Labs", "Google Jobs",
          "http://jobs.example/202", ""), 80, "UNKNOWN">>

CAND_EMPTY_FIELDS ==
    <<Job("203", "", "", "", "", "Greenhouse", "https://jobs.example/203", ""), 56, "UNKNOWN">>

CAND_URL_PIPE ==
    <<Job("205", "AI Intern", "Remote", "", "initech", "Google Jobs",
          "https://jobs.example/view?id=205|ref", ""), 72, "YES">>

CAND_URL_PAREN ==
    <<Job("206", "NLP Intern", "Dallas, TX", "", "hooli", "Google Jobs",
          "https://jobs.example/NLP_(intern)", ""), 88, "UNKNOWN">>

CAND_TITLE_NEWLINE ==
    <<Job("207", "Research Intern\nSummer 2026", "Remote", "", "umbrella", "Google Jobs",
          "https://jobs.example/207", ""), 100, "YES">>

CAND_NO_URL ==
    <<Job("208", "Data Platform Intern", "Remote", "", "soylent", "Google Jobs", "", ""),
      64, "UNKNOWN">>

CANDIDATE_POOL ==
    {CAND_ML, CAND_PIPES, CAND_EMPTY_FIELDS, CAND_NO_URL, CAND_URL_PIPE,
     CAND_URL_PAREN, CAND_TITLE_NEWLINE}

\* The non-empty lists main hands to build_digest_md.
RoundTripInit ==
    /\ FetchIdle
    /\ Step3Idle
    /\ \E n \in 1..MaxRows : input \in [1..n -> CANDIDATE_POOL]
    /\ mid = ""
    /\ output = <<>>
    /\ hpc = "ready"

\* fetch_jobs.main writes the digest of its list.
Render ==
    /\ hpc = "ready"
    /\ mid' = build_digest_md(input)
    /\ hpc' = "rendered"
    /\ UNCHANGED <<input, output>>
    /\ UNCHANGED <<fetchVars, step3Vars>>

\* step3_generate_artifacts.main reads the digest back.
Parse ==
    /\ hpc = "rendered"
    /\ output' = parse_jobs_from_markdown_table(mid)
    /\ hpc' = "returned"
    /\ UNCHANGED <<input, mid>>
    /\ UNCHANGED <<fetchVars, step3Vars>>

RoundTripNext == Render \/ Parse

SpecRoundTrip == RoundTripInit /\ [][RoundTripNext]_vars

\* C3: the rows parsed back from the digest of a non-empty ranked list are as
\* many as the list's candidates, in its order, and each row's title,
\* company, source, location, score (as text) and apply URL are the
\* candidate's, up to "|" replaced by a space.  A row without URL counts as
\* equal to a candidate whose URL is empty, as build_comment reads it.
C3_RoundTrip ==
    hpc = "returned" =>
        /\ Len(output) = Len(input)
        /\ \A i \in 1..Len(input) :
              i <= Len(output) =>
                  /\ output[i].title     = replace(input[i][1].title, "|", " ")
                  /\ output[i].company   = replace(input[i][1].company, "|", " ")
                  /\ output[i].source    = replace(input[i][1].source, "|", " ")
                  /\ output[i].location  = replace(input[i][1].location, "|", " ")
                  /\ output[i].score     = str(input[i][2])
                  /\ (IF output[i].apply_url = None THEN "" ELSE output[i].apply_url)
                         = replace(input[i][1].url, "|", " ")

(***************************************************************************)
(* parse_jobs_from_markdown_table, called on documents made of lines.      *)
(***************************************************************************)
\* The most pieces in one document, a piece being one line or a table head.
MaxLines == 5

HEADER_LINE == "| Score | Sponsorship | Title | Company | Source | Location | Link |"

SEPARATOR_LINE == "|---:|:---:|---|---|---|---|---|"

ROW_LINE_A == "| 96 | YES | ML Intern | acme | Greenhouse | Remote | [Apply](https://jobs.example/1) |"

ROW_LINE_B == "| 64 | UNKNOWN | Data Intern | globex | Google Jobs | Austin, TX | [Apply](http://jobs.example/2) |"

SHORT_ROW_LINE == "| 80 | YES | NLP Intern |"

TEXT_LINE == "Notes: see the table."

\* The head of a table as build_digest_md writes it: the header line and, right
\* after it, its separator line.
TABLE_HEAD == HEADER_LINE \o "\n" \o SEPARATOR_LINE

\* The pieces a document is made of; "" is a blank line.
DOC_LINES ==
    {TABLE_HEAD, ROW_LINE_A, ROW_LINE_B, SHORT_ROW_LINE, TEXT_LINE, ""}

ParseInit ==
    /\ FetchIdle
    /\ Step3Idle
    /\ \E n \in 0..MaxLines : input \in [1..n -> DOC_LINES]
    /\ mid = join("\n", input)
    /\ output = <<>>
    /\ hpc = "ready"

\* jobs = parse_jobs_from_markdown_table(body)
ParseDocument ==
    /\ hpc = "ready"
    /\ output' = parse_jobs_from_markdown_table(mid)
    /\ hpc' = "returned"
    /\ UNCHANGED <<input, mid>>
    /\ UNCHANGED <<fetchVars, step3Vars>>

SpecParse == ParseInit /\ [][ParseDocument]_vars

\* A header line: it begins with "|" and holds Title, Company and Link.
IsHeaderLine(ln) ==
    /\ startswith(ln, "|")
    /\ Contains(ln, "Title")
    /\ Contains(ln, "Company")
    /\ Contains(ln, "Link")

\* The row a table line of 7 columns or more stands for.
RowOf(ln) ==
    LET cols == row_cols(ln)
    IN  [score |-> cols[1], sponsorship |-> cols[2], title |-> cols[3],
         company |-> cols[4], source |-> cols[5], location |-> cols[6],
         apply_url |-> link_url(cols[7])]

\* The rows of the block of a document given as its lines: the "|"-prefixed
\* lines that follow the first header line and the one line after it, up to
\* the first line that does not begin with "|" (a blank line is such a line),
\* those of fewer than 7 columns left out; none without a header line.
BlockRows(doc) ==
    LET headers == {i \in 1..Len(doc) : IsHeaderLine(doc[i])}
    IN  IF headers = {} THEN <<>>
        ELSE LET first == Min(headers) + 2
                 stops == {k \in first..Len(doc) : ~startswith(doc[k], "|")}
                 last  == IF stops = {} THEN Len(doc) ELSE Min(stops) - 1
                 block == [k \in 1..(last - first + 1) |-> doc[first + k - 1]]
                 wide(ln) == Len(row_cols(ln)) >= 7
                 data  == SelectSeq(block, wide)
             IN  [k \in 1..Len(data) |-> RowOf(data[k])]

\* C13: the parser returns exactly the rows of the contiguous block of
\* "|"-prefixed lines that directly follows the first header line and its one
\* separator line: no line before the header and no line after the first line
\* that ends the block, a blank line included, gives a row; a row of fewer
\* than 7 columns is left out without ending the block; without a header line
\* the result is the empty list.
C13_BlockBoundary ==
    hpc = "returned" => output = BlockRows(splitlines(mid))

(***************************************************************************)
(* step3_generate_artifacts.main: runs of the artifact workflow on one     *)
(* issue.                                                                  *)
(***************************************************************************)
\* The page size already_ran asks GitHub for.
PER_PAGE == 100

\* The runs of the workflow started on the issue.
NumRuns == 2

Runs == 1..NumRuns

\* The longest of the short comment lists, and how far past one page the
\* long ones go.
MaxFew == 2

MaxBeyond == 1

\* GET .../issues/N/comments?per_page=100: GitHub answers with the first page,
\* the oldest PER_PAGE comments.
comments_page(all) == Upto(all, PER_PAGE)

\* any(MARKER in body for c in comments), over the comments GitHub returned.
already_ran(page) == \E i \in 1..Len(page) : Contains(page[i], MARKER)

OTHER_COMMENT == "Applied to the first two, thanks!"

\* An earlier run's comment, as a person quoted it back.
MARKED_COMMENT == "> " \o no_table_comment \o "\nI have fixed the table."

\* What a job page may answer.
JD_RESPONSES ==
    {[ok |-> FALSE, text |-> ""],
     [ok |-> TRUE,
      text |-> "About the role\n\n\n\nDeploy LLM pipelines on Kubernetes with Python and SQL.\nVisa sponsorship available.\n"]}

\* The issue bodies: a digest with two rows, the notice without a table, nothing.
ISSUE_BODIES ==
    {build_digest_md(<<CAND_ML, CAND_NO_URL>>), no_matches_md, ""}

Step3Init ==
    /\ FetchIdle
    /\ CallIdle
    /\ \E n \in (0..MaxFew) \cup ((PER_PAGE - 1)..(PER_PAGE + MaxBeyond)) :
       \E k \in {0, 1, n} :
          comments = [i \in 1..n |-> IF i = k THEN MARKED_COMMENT ELSE OTHER_COMMENT]
    /\ issue_body \in ISSUE_BODIES
    /\ runs = [r \in Runs |->
                 [pc |-> "start", jobs |-> <<>>, comment |-> "", posted |-> 0,
                  marker_on_issue |-> FALSE]]

\* main line 285: already_ran() answers; marker_on_issue records whether any
\* comment of the issue held the marker at that moment.
CheckAlreadyRan(r) ==
    /\ runs[r].pc = "start"
    /\ runs' = [runs EXCEPT
                   ![r].pc = IF already_ran(comments_page(comments))
                             THEN "exit" ELSE "get_body",
                   ![r].marker_on_issue = already_ran(comments)]
    /\ UNCHANGED <<comments, issue_body>>
    /\ UNCHANGED <<fetchVars, callVars>>

\* main lines 289-298: the issue body is read and parsed; without rows the
\* comment is the fixed notice.
GetIssueBody(r) ==
    /\ runs[r].pc = "get_body"
    /\ LET body == issue_body
           jobs == parse_jobs_from_markdown_table(body)
       IN  runs' = [runs EXCEPT
                       ![r].jobs = jobs,
                       ![r].comment = IF jobs = <<>> THEN no_table_comment ELSE "",
                       ![r].pc = IF jobs = <<>> THEN "post" ELSE "build"]
    /\ UNCHANGED <<comments, issue_body>>
    /\ UNCHANGED <<fetchVars, callVars>>

\* main line 300: build_comment, each job page answering as it will.
BuildComment(r) ==
    /\ runs[r].pc = "build"
    /\ \E responses \in [1..Len(runs[r].jobs) -> JD_RESPONSES] :
          runs' = [runs EXCEPT
                      ![r].comment = build_comment(runs[r].jobs, responses),
                      ![r].pc = "post"]
    /\ UNCHANGED <<comments, issue_body>>
    /\ UNCHANGED <<fetchVars, callVars>>

\* main lines 302-306: gh_post adds the comment to the issue.
PostComment(r) ==
    /\ runs[r].pc = "post"
    /\ comments' = Append(comments, runs[r].comment)
    /\ runs' = [runs EXCEPT ![r].posted = @ + 1, ![r].pc = "posted"]
    /\ UNCHANGED issue_body
    /\ UNCHANGED <<fetchVars, callVars>>

\* gh_get and gh_post raise on an HTTP error: the run ends where it is.
RequestFails(r) ==
    /\ runs[r].pc \in {"start", "get_body", "post"}
    /\ runs' = [runs EXCEPT ![r].pc = "crashed"]
    /\ UNCHANGED <<comments, issue_body>>
    /\ UNCHANGED <<fetchVars, callVars>>

Step3Next ==
    \E r \in Runs :
        \/ CheckAlreadyRan(r)
        \/ GetIssueBody(r)
        \/ BuildComment(r)
        \/ PostComment(r)
        \/ RequestFails(r)

SpecStep3 == Step3Init /\ [][Step3Next]_vars

\* C1: a run on an issue one of whose comments holds the marker posts no
\* comment, however many comments the issue has and wherever that one sits.
C1_Idempotency ==
    \A r \in Runs :
        runs[r].marker_on_issue => runs[r].posted = 0

\* C2: a run on an issue none of whose comments holds the marker, and whose
\* requests succeed, posts exactly one comment, which begins with the marker,
\* with job rows in the issue body and without; a run started afterwards on
\* the issue finds the marker.
C2_PostsOneMarkedComment ==
    \A r \in Runs :
        (runs[r].pc = "posted" /\ ~runs[r].marker_on_issue) =>
            /\ runs[r].posted = 1
            /\ startswith(runs[r].comment, MARKER)
            /\ \E i \in 1..Len(comments) : comments[i] = runs[r].comment
            /\ already_ran(comments_page(comments))

\* The comments of the issue that begin with the marker.
marked_comments == {i \in 1..Len(comments) : startswith(comments[i], MARKER)}

\* Run r answers its marker check in this step, the request succeeding.
Checks(r) == runs[r].pc = "start" /\ runs'[r].pc \in {"exit", "get_body"}

\* A run that starts after another run on the issue has posted does not
\* overlap it: it finds the marker and posts nothing.
LaterRunExits ==
    \A r, q \in Runs :
        (r # q /\ runs[q].pc = "posted" /\ Checks(r)) => runs'[r].pc = "exit"

\* A run that is past its marker check never looks again: whatever the other
\* runs post meanwhile, it goes on towards its own post.
PastCheckGoesOn ==
    \A r \in Runs :
        runs[r].pc \in {"get_body", "build", "post"} =>
            runs'[r].pc \in {"get_body", "build", "post", "posted", "crashed"}

\* The race: both runs asked before either posted, on an issue of fewer than
\* PER_PAGE comments none of which held the marker, and both have posted.
RaceWindow ==
    /\ \A r \in Runs : runs[r].pc = "posted" /\ ~runs[r].marker_on_issue
    /\ Len(comments) < PER_PAGE
    /\ Cardinality(marked_comments) >= 2

\* C11: the guard is check-then-act.  Runs on the issue that do not overlap
\* post at most one comment between them (the later one finds the marker and
\* exits); runs that have both made the marker check before either posts both
\* go on to post, and then the issue holds a marker-tagged comment of each.
C11_CheckThenAct ==
    /\ [][LaterRunExits]_vars
    /\ [][PastCheckGoesOn]_vars
    /\ []((\A r \in Runs : runs[r].pc = "posted")
             => Cardinality(marked_comments) >= NumRuns)

(***************************************************************************)
(* The ingestion run: the scenario, the failing sources, the rank and cap. *)
(***************************************************************************)
\* C8: the single posting "Machine Learning Intern", located "Remote", whose
\* description says "visa sponsorship available" and which matches exactly 12
\* distinct keyword phrases, run with min_match_score 50, is a candidate with
\* sponsorship YES and a score between 80 and 95, and is a row of the digest.
C8_EndToEndScenario ==
    ( /\ pc = "done"
      /\ all_jobs = <<J_ML>>
      /\ Cardinality(DistinctHits(J_ML, keyword_phrases)) = 12
      /\ CONFIG.min_match_score = 50
      /\ CONFIG.max_results >= 1 ) =>
        \E score \in 80..95 :
            /\ candidates = << <<J_ML, score, "YES">> >>
            /\ Contains(md, digest_row(<<J_ML, score, "YES">>))

\* The postings main has when the fetches are over: per source in the order of the
\* fetches, nothing from a source that failed (or was skipped for want of the key),
\* everything from every other.
ExpectedJobs ==
    (IF "acme" \in failed THEN <<>> ELSE world.acme)
    \o (IF "globex" \in failed THEN <<>> ELSE world.globex)
    \o (IF "serpapi" \in failed \/ ~world.SERPAPI_KEY THEN <<>> ELSE world.serpapi)

\* What holds at every point of a run whatever sources fail: the run is at a
\* position of main (no failure has ended it); once the fetches are over,
\* all_jobs is exactly the postings of the sources that did not fail; once the
\* loop is over, every one of them has been through the gates; at the end the
\* digest is written.
FailuresIsolated ==
    /\ pc \in {"greenhouse", "serpapi", "filter", "digest", "done"}
    /\ pc \in {"filter", "digest", "done"} => all_jobs = ExpectedJobs
    /\ pc \in {"digest", "done"} => Len(outcome) = Len(all_jobs)
    /\ pc = "done" => md # ""

\* Some step of main can be taken: the guard of one of its actions holds.
CanStep ==
    \/ pc = "greenhouse" /\ cursor \in DOMAIN greenhouse_boards(get(CONFIG, "sources", <<>>))
    \/ pc = "serpapi"
    \/ pc = "filter"
    \/ pc = "digest"

\* How far main is from its end: its phase first, then what is left of the
\* phase's loop.  Every step lowers it.
StepsLeft ==
    CASE pc = "greenhouse" ->
            400 + Len(greenhouse_boards(get(CONFIG, "sources", <<>>))) - cursor
      [] pc = "serpapi" -> 300
      [] pc = "filter" -> 200 + Len(all_jobs) - cursor
      [] pc = "digest" -> 100
      [] OTHER -> 0

\* C9: for any subset of failing source fetches the run proceeds to the end and
\* writes a digest (it is never ended by a failure, it can always take a step
\* until it is done, and every step brings it nearer the end); a failed source
\* contributes no posting, and every posting of every other source, fetched
\* before or after the failure, is in all_jobs and goes through the gates.
C9_SourceFailureIsolation ==
    /\ []FailuresIsolated
    /\ [](pc # "done" => CanStep)
    /\ [][StepsLeft' < StepsLeft]_vars

\* The second board failed; the postings of the first board and of the search,
\* fetched before and after the failure, went through the gates.
C9_Witness ==
    /\ pc = "done"
    /\ failed = {"globex"}
    /\ world.SERPAPI_KEY
    /\ all_jobs = world.acme \o world.serpapi
    /\ Len(outcome) = Len(world.acme) + Len(world.serpapi)
    /\ md # ""

\* a ranks at least as high as b: a higher score, or the same score and a
\* normalized title that is not smaller.
RanksNotBelow(a, b) ==
    \/ a[2] > b[2]
    \/ a[2] = b[2] /\ ~StrLess(normalize(a[1].title), normalize(b[1].title))

\* C10: the final candidate list is in descending order of (score, normalized
\* title), is at most max_results long, and is made of the max_results
\* highest-ranked survivors: no survivor left out ranks above one that is kept.
C10_RankAndCap ==
    pc \in {"digest", "done"} =>
        LET kept == {candidates[i] : i \in DOMAIN candidates}
            all  == {survivors[i] : i \in DOMAIN survivors}
        IN  /\ \A i \in 1..(Len(candidates) - 1) :
                  RanksNotBelow(candidates[i], candidates[i + 1])
            /\ Len(candidates) <= CONFIG.max_results
            /\ Len(candidates) = Min({CONFIG.max_results, Len(survivors)})
            /\ Cardinality(kept) = Len(candidates)
            /\ kept \subseteq all
            /\ \A s \in all \ kept : \A c \in kept : RanksNotBelow(c, s)

\* Four survivors, three kept, the first two with the same score.
C10_Witness ==
    /\ pc = "done"
    /\ Len(survivors) = 4
    /\ Len(candidates) = 3
    /\ candidates[1][2] = candidates[2][2]
    /\ candidates[1][1].title # candidates[2][1].title

\* The reject_if_no_sponsorship flag as main reads it: false when the key is absent.
FlagSet ==
    "reject_if_no_sponsorship" \in DOMAIN CONFIG /\ CONFIG.reject_if_no_sponsorship

\* The posting passes the gates that come before the sponsorship gate.
PassesEarlierGates(job) ==
    /\ is_intern_role(job.title)
    /\ is_internship(job, get(CONFIG, "internship_type_keywords", <<>>))
    /\ contains_any(job.title \o "\n" \o job.description \o "\n" \o job.team,
                    get(CONFIG, "role_keywords", <<>>))
    /\ location_ok(job, get(CONFIG, "locations", <<>>))

\* The classification main computes for the posting.
Classification(job) ==
    sponsorship_status(job.title \o "\n" \o job.description \o "\n" \o job.team)

=============================================================================
